---- MODULE Spec2Model ----
(***************************************************************************)
(* Model of torchexpresso/contexts.py: the configuration-driven assembly   *)
(* of experiment, training, prediction and processor contexts.             *)
(*                                                                         *)
(* A run is one call of a public entry point.  The from_config factories   *)
(* are modelled statement by statement (pc is the position in the factory) *)
(* and every external effect is appended to trace.  The loaders that are   *)
(* pure functions of their arguments are operators.                        *)
(***************************************************************************)
EXTENDS Integers, Sequences, FiniteSets, TLC

\* ---------------------------------------------------------------- bounds
MaxCallbacks == 3       \* longest callback list passed to the registry loader
MaxRefs == 2            \* longest `metrics` name list of one callback
MaxSplits == 2          \* longest list of split names
MaxEpoch == 2           \* largest cp-epoch recorded in a checkpoint

\* ------------------------------------------------------------ value sets
CallbackClasses == {"A", "B"}
CallbackNames == {"a", "b"}
SplitNames == {"train", "dev"}
ModelConfigs == {"m1", "m2"}
TaskConfigs == {"t1", "t2"}
Flags == {"absent", "true", "false"}       \* an optional boolean param
ModelPaths == {"None", "ckpt.pt"}

SeqsUpTo(S, n) == UNION {[1..k -> S] : k \in 0..n}

Range(s) == {s[i] : i \in DOMAIN s}

IsPrefix(s, t) == Len(s) <= Len(t) /\ \A i \in 1..Len(s) : s[i] = t[i]

\* A name string held in a config list.
Str(s) == [type |-> "str", value |-> s]

EmptyDict == [k \in {} |-> k]

\* ------------------------------------------------- callback configuration
\* One entry of experiment_config["callbacks"]: package/class, and the
\* optional kwargs with the optional `metrics` list.
ClbConfig(cls, has_kwargs, has_metrics, metrics) ==
    [class |-> cls, has_kwargs |-> has_kwargs, has_metrics |-> has_metrics,
     metrics |-> metrics]

ClbPlain(cls) == ClbConfig(cls, FALSE, FALSE, <<>>)
ClbKwargs(cls) == ClbConfig(cls, TRUE, FALSE, <<>>)
ClbMetrics(cls, names) ==
    ClbConfig(cls, TRUE, TRUE, [i \in DOMAIN names |-> Str(names[i])])

ClbConfigs ==
    {ClbPlain(c) : c \in CallbackClasses}
    \cup {ClbKwargs(c) : c \in CallbackClasses}
    \cup {ClbMetrics(c, ns) : c \in CallbackClasses,
                              ns \in SeqsUpTo(CallbackNames, MaxRefs)}

\* The callbacks section of a config: absent, or a list of entries.
NoSection == [present |-> FALSE, list |-> <<>>]
Section(list) == [present |-> TRUE, list |-> list]

\* The callback lists of k entries.
CallbackLists(k) == [1..k -> ClbConfigs]

\* The sections an assembly run is started with: no section, a reference to
\* an earlier entry, a reference to a later entry, a name no entry before it
\* registers.
FlowCallbackSections ==
    { NoSection,
      Section(<<ClbPlain("A"), ClbMetrics("B", <<"a">>)>>),
      Section(<<ClbMetrics("B", <<"a">>), ClbPlain("A")>>),
      Section(<<ClbPlain("A"), ClbMetrics("A", <<"b">>), ClbPlain("B")>>) }

\* ------------------------------------------------------ callback classes
\* Every callback has a name; here it is fixed by its class.
ClbName(cls) ==
    CASE cls = "A" -> "a"
      [] cls = "B" -> "b"
      [] cls = "C" -> "c"
      [] cls = "D" -> "d"

\* The parameters the constructor of a callback class declares, each with a
\* default: A takes the tracking client as `comet`, C as `experiment` (not in
\* first place), B and D take none (D has a parameter whose name only starts
\* with comet).  Only B takes `metrics`.
ClbParameters(cls) ==
    CASE cls = "A" -> <<"comet", "name">>
      [] cls = "B" -> <<"metrics", "name">>
      [] cls = "C" -> <<"name", "experiment">>
      [] cls = "D" -> <<"comet_ml", "name">>

\* The classes load_callback_dynamically is called with directly.
DynamicClasses == CallbackClasses \cup {"C", "D"}

\* The tracking clients it is called with (None included).
Comets == {"none", "experiment"}

\* The default callback of a config without a callbacks section.
AverageLossMetric(comet, id) ==
    [type |-> "callback", id |-> id, class |-> "AverageLossMetric",
     name |-> "loss", args |-> <<comet>>, bound_to |-> "comet",
     has_kwargs |-> FALSE,
     has_metrics |-> FALSE, metrics |-> <<>>]

\* Variant: only a parameter named comet is looked for.
InjectCometOnlyComet(cls) ==
    \E i \in DOMAIN ClbParameters(cls) : ClbParameters(cls)[i] = "comet"

\* Lines 116-121: the signature declares a parameter named comet or
\* experiment.
InjectComet(cls) ==
    \E i \in DOMAIN ClbParameters(cls) :
        ClbParameters(cls)[i] \in {"comet", "experiment"}

\* Lines 122-128: the constructor call made.  args are the positional
\* arguments; the kwargs are None (has_kwargs false), or a mapping that
\* holds the `metrics` list or is empty.
ConstructorCall(cls, comet, has_kwargs, has_metrics, metrics) ==
    [class |-> cls,
     args |-> IF InjectComet(cls) THEN <<comet>> ELSE <<>>,
     has_kwargs |-> has_kwargs,
     has_metrics |-> has_kwargs /\ has_metrics,
     metrics |-> IF has_kwargs /\ has_metrics THEN metrics ELSE <<>>]

\* The keywords of a constructor call.
Keywords(call) == IF call.has_metrics THEN {"metrics"} ELSE {}

\* Python's binding of the call to the constructor's parameters: every
\* keyword is a declared parameter, and none names the parameter the
\* positional argument is bound to.  Otherwise the call raises TypeError.
Accepts(call) ==
    LET parameters == ClbParameters(call.class)
    IN /\ Keywords(call) \subseteq Range(parameters)
       /\ Len(call.args) <= Len(parameters)
       /\ \A i \in DOMAIN call.args : parameters[i] \notin Keywords(call)

\* What a constructor call that raises TypeError leaves: no instance.
Raised(call) ==
    [type |-> "TypeError", id |-> 0, class |-> call.class, name |-> "none",
     args |-> call.args, bound_to |-> "none", has_kwargs |-> call.has_kwargs,
     has_metrics |-> call.has_metrics, metrics |-> call.metrics]

\* load_callback_dynamically: the instance clb_class(...) returns, or the
\* TypeError of a call the constructor does not accept.  id is the identity
\* of the new object; the tracking client, when passed, is the first
\* positional argument and so bound to the first parameter.
load_callback_dynamically(cls, comet, has_kwargs, has_metrics, metrics, id) ==
    LET call == ConstructorCall(cls, comet, has_kwargs, has_metrics, metrics)
    IN IF Accepts(call)
       THEN [type |-> "callback", id |-> id, class |-> cls,
             name |-> ClbName(cls), args |-> call.args,
             bound_to |-> IF call.args # <<>> THEN ClbParameters(cls)[1]
                          ELSE "none",
             has_kwargs |-> call.has_kwargs,
             has_metrics |-> call.has_metrics, metrics |-> call.metrics]
       ELSE Raised(call)

load_callback(clb_config, comet, id) ==
    IF clb_config.has_kwargs
    THEN load_callback_dynamically(clb_config.class, comet, TRUE,
                                   clb_config.has_metrics, clb_config.metrics, id)
    ELSE load_callback_dynamically(clb_config.class, comet, FALSE,
                                   FALSE, <<>>, id)

\* ------------------------------------------------------ callback registry
\* CallbackRegistry: a name-keyed collection of constructed callbacks.
RegistryHas(registry, name) == name \in DOMAIN registry

RegistryGet(registry, name) == registry[name]

RegistrySet(registry, name, clb) ==
    [k \in DOMAIN registry \cup {name} |->
        IF k = name THEN clb ELSE registry[k]]

\* Line 94: every name of the list can be looked up in the registry.
MetricsResolvable(registry, refs) ==
    \A j \in DOMAIN refs : RegistryHas(registry, refs[j].value)

\* Variant: the name list passed on as it is.
ResolveMetricsUnresolved(registry, refs) == refs

\* Line 94: the instances registered under the names, in the list's order.
ResolveMetrics(registry, refs) ==
    [j \in DOMAIN refs |-> RegistryGet(registry, refs[j].value)]

\* The loop of load_callbacks_from_config from entry i on.  st holds the
\* registry, the entries (replaced in place), the instances constructed so
\* far, whether the call has raised and what: the KeyError of a lookup (line
\* 94) or the TypeError of a constructor call (line 97), which comes after
\* the names were replaced in place (line 96).
RECURSIVE LoadCallbacksLoop(_, _, _)
LoadCallbacksLoop(st, comet, i) ==
    IF i > Len(st.list) THEN st
    ELSE
      LET clb_config == st.list[i]
          resolve == clb_config.has_kwargs /\ clb_config.has_metrics
      IN IF resolve /\ ~MetricsResolvable(st.registry, clb_config.metrics)
         THEN [st EXCEPT !.failed = TRUE, !.error = "KeyError"]
         ELSE
           LET replaced ==
                 IF resolve
                 THEN [clb_config EXCEPT
                         !.metrics = ResolveMetrics(st.registry, @)]
                 ELSE clb_config
               clb == load_callback(replaced, comet, Len(st.constructed) + 1)
           IN IF clb.type = "TypeError"
              THEN [st EXCEPT !.list = [@ EXCEPT ![i] = replaced],
                              !.failed = TRUE, !.error = "TypeError"]
              ELSE LoadCallbacksLoop(
                     [st EXCEPT !.list = [@ EXCEPT ![i] = replaced],
                                !.registry = RegistrySet(@, clb.name, clb),
                                !.constructed = Append(@, clb)],
                     comet, i + 1)

\* Variant: a failed lookup is swallowed and the registry returned.
load_callbacks_from_config_swallowing(section, comet) ==
    IF section.present
    THEN [LoadCallbacksLoop([registry |-> EmptyDict, list |-> section.list,
                             constructed |-> <<>>, failed |-> FALSE,
                             error |-> "none"], comet, 1)
            EXCEPT !.failed = FALSE]
    ELSE LET loss_default == AverageLossMetric(comet, 1)
         IN [registry |-> RegistrySet(EmptyDict, loss_default.name, loss_default),
             list |-> <<>>, constructed |-> <<loss_default>>, failed |-> FALSE,
             error |-> "none"]

\* load_callbacks_from_config: the registry, the callbacks section as the
\* call leaves it, the instances constructed, and whether it raised.
load_callbacks_from_config(section, comet) ==
    IF section.present
    THEN LoadCallbacksLoop([registry |-> EmptyDict, list |-> section.list,
                            constructed |-> <<>>, failed |-> FALSE,
                             error |-> "none"], comet, 1)
    ELSE LET loss_default == AverageLossMetric(comet, 1)
         IN [registry |-> RegistrySet(EmptyDict, loss_default.name, loss_default),
             list |-> <<>>, constructed |-> <<loss_default>>, failed |-> FALSE,
             error |-> "none"]

\* ------------------------------------------------------ experiment config
\* The parts of experiment_config that decide what the assembly does.  tags
\* and env say whether the optional key is present; the savers, loss_fn and
\* step_fn sections only choose which saver, loss and step objects are built.
ExperimentConfig(tags, callbacks, env, model, task, cpu_only, resume) ==
    [tags |-> tags, callbacks |-> callbacks, env |-> env, model |-> model,
     task |-> task, dataset_split_name |-> "unset",
     params |-> [cpu_only |-> cpu_only, resume |-> resume]]

FlowConfigs ==
    {ExperimentConfig(tags, clbs, env, m, t, cpu, res) :
        tags \in BOOLEAN, clbs \in FlowCallbackSections, env \in BOOLEAN,
        m \in ModelConfigs, t \in TaskConfigs, cpu \in Flags, res \in Flags}

\* The config of a direct call of load_callbacks_from_config.
CallbackOnlyConfig(clbs) ==
    ExperimentConfig(FALSE, clbs, FALSE, "m1", "t1", "absent", "absent")

SplitLists == SeqsUpTo(SplitNames, MaxSplits)

\* A checkpoint record as load_checkpoint_from_path returns it.
NoCheckpoint ==
    [loaded |-> FALSE, cp_epoch |-> 0, cp_model |-> "none", cp_task |-> "none"]

Checkpoints ==
    {[loaded |-> TRUE, cp_epoch |-> e, cp_model |-> m, cp_task |-> t] :
        e \in 0..MaxEpoch, m \in ModelConfigs, t \in TaskConfigs}

\* ----------------------------------------------------------------- device
\* Variant: force_cpu is not looked at.
load_device_ignoring_force(force_cpu, cuda_available) ==
    IF cuda_available THEN "cuda:0" ELSE "cpu"

load_device(force_cpu, cuda_available) ==
    IF force_cpu THEN "cpu"
    ELSE IF cuda_available THEN "cuda:0" ELSE "cpu"

load_device_from_config(experiment_config, cuda_available) ==
    LET cpu_only == IF experiment_config.params.cpu_only # "absent"
                    THEN experiment_config.params.cpu_only = "true"
                    ELSE FALSE
    IN load_device(cpu_only, cuda_available)

\* -------------------------------------------------------------- providers
\* Variant: the environment is not looked at.
ShuffleTrainAlways(split_name, experiment_config) == split_name = "train"

\* Line 195: the shuffle argument of the DataLoader of a split.
Shuffle(split_name, experiment_config) ==
    split_name = "train" /\ ~experiment_config.env

\* Lines 185-197 from split i on.  st holds the providers built so far and
\* the config, whose dataset params carry the split name when an
\* environment is configured.
RECURSIVE LoadProvidersLoop(_, _, _, _)
LoadProvidersLoop(st, split_names, device, i) ==
    IF i > Len(split_names) THEN st
    ELSE
      LET split_name == split_names[i]
          cfg == IF st.config.env
                 THEN [st.config EXCEPT !.dataset_split_name = split_name]
                 ELSE st.config
          dataset == [task |-> cfg.task,
                      split_or_env |-> IF cfg.env THEN "env" ELSE split_name,
                      device |-> device]
          provider == [dataset |-> dataset,
                       shuffle |-> Shuffle(split_name, cfg)]
      IN LoadProvidersLoop(
           [config |-> cfg,
            providers |-> [k \in DOMAIN st.providers \cup {split_name} |->
                             IF k = split_name THEN provider
                             ELSE st.providers[k]]],
           split_names, device, i + 1)

load_providers_from_config(experiment_config, split_names, device) ==
    LoadProvidersLoop([config |-> experiment_config, providers |-> EmptyDict],
                      split_names, device, 1)

\* ------------------------------------------------------------------ model
NoModel ==
    [model |-> "none", task |-> "none", weights |-> "none", device |-> "none"]

\* load_model_from_config: model_class(task, params) of the given section.
load_model_from_config(model_config, task) ==
    [model |-> model_config, task |-> task, weights |-> "initial",
     device |-> "none"]

NoOptimizer == [constructed |-> FALSE, params_device |-> "none", state |-> "none"]

\* torch.optim.Adam(model.parameters()): bound to the parameters where they
\* are when the optimizer is constructed.
Adam(m) == [constructed |-> TRUE, params_device |-> m.device, state |-> "fresh"]

IsResume(experiment_config) == experiment_config.params.resume = "true"

\* Variant: training resumes at the checkpoint's own epoch.
AdvanceEpochSame(cp_epoch) == cp_epoch

\* Line 346: the epoch training resumes at.
AdvanceEpoch(cp_epoch) == cp_epoch + 1

\* ---------------------------------------------------------------- contexts
ExperimentKeys == {"config", "comet", "device", "providers", "callbacks"}
TrainingKeys ==
    {"model", "optimizer", "loss_fn", "step_fn", "epoch_start", "savers"}
PredictionKeys == {"model"}

\* Variant: the callbacks are not stored.
ExperimentHolderNoCallbacks(cfg, cmt, dev, provs, clbs) ==
    [config |-> cfg, comet |-> cmt, device |-> dev, providers |-> provs]

\* ExperimentContext.__init__: the holder.
ExperimentHolder(cfg, cmt, dev, provs, clbs) ==
    [config |-> cfg, comet |-> cmt, device |-> dev, providers |-> provs,
     callbacks |-> clbs]

\* {**self.holder, **experiment_context.holder}: on a key both mappings
\* hold, the right-hand one decides.
MergeHolders(own, embedded) ==
    [k \in DOMAIN own \cup DOMAIN embedded |->
        IF k \in DOMAIN embedded THEN embedded[k] ELSE own[k]]

\* The fields TrainingContext.__init__ sets before the merge.
TrainingOwn(m, opt, lf, sf, es, sv) ==
    [model |-> m, optimizer |-> opt, loss_fn |-> lf, step_fn |-> sf,
     epoch_start |-> es, savers |-> sv]

PredictionOwn(m) == [model |-> m]

ProcessorOwn == EmptyDict

\* ------------------------------------------------------------------ state
VARIABLES
    pc,                 \* position in the running call
    kind,               \* the entry point called
    config,             \* experiment_config (a dict the loaders write to)
    given_callbacks,    \* the callbacks section as the caller passed it
    split_names,        \* the split_names argument
    model_path,         \* the model_path argument of the prediction factory
    clb_call,           \* the arguments of a direct load_callback_dynamically
    trace,              \* the external effects so far, in order
    comet,              \* the tracking client
    callbacks,          \* the callback registry of the factory
    constructed,        \* the callback instances constructed, in order
    cuda_available,     \* what cuda.is_available() answered
    device,             \* the device of the factory
    providers,          \* split name -> data provider
    experiment_context, \* holder of the embedded ExperimentContext
    model,              \* the model of the factory
    models_built,       \* arguments of every load_model_from_config call
    ckpt,               \* the checkpoint record loaded
    epoch_start,        \* epoch_start of the training factory (0: unset)
    optimizer,          \* the optimizer of the training factory
    savers, loss_fn, step_fn,
    raised,             \* the exception that ended the call ("none": none)
    own_fields,         \* holder of a specialized context before the merge
    context             \* holder of the context the call returned

inputs == <<kind, given_callbacks, split_names, model_path, clb_call>>
expvars == <<comet, callbacks, constructed, cuda_available, device, providers,
             experiment_context>>
trainvars == <<model, models_built, ckpt, epoch_start, optimizer, savers,
               loss_fn, step_fn>>
result == <<own_fields, context>>
vars == <<pc, config, trace, inputs, expvars, trainvars, raised, result>>

\* No direct call of load_callback_dynamically was made.
NoCall ==
    [called |-> FALSE, comet |-> "none", config |-> ClbPlain("A"),
     call |-> ConstructorCall("A", "none", FALSE, FALSE, <<>>)]


Init ==
    /\ pc = "idle"
    /\ kind = "none"
    /\ config = CallbackOnlyConfig(NoSection)
    /\ given_callbacks = NoSection
    /\ split_names = <<>>
    /\ model_path = "None"
    /\ clb_call = NoCall
    /\ trace = <<>>
    /\ comet = "none"
    /\ callbacks = EmptyDict
    /\ constructed = <<>>
    /\ cuda_available = FALSE
    /\ device = "none"
    /\ providers = EmptyDict
    /\ experiment_context = EmptyDict
    /\ model = NoModel
    /\ models_built = <<>>
    /\ ckpt = NoCheckpoint
    /\ epoch_start = 0
    /\ optimizer = NoOptimizer
    /\ savers = "none"
    /\ loss_fn = "none"
    /\ step_fn = "none"
    /\ raised = "none"
    /\ own_fields = EmptyDict
    /\ context = EmptyDict

\* ------------------------------------------------------------ control flow
\* ExperimentContext.from_config: the statement after `step`; after the
\* constructor control is back in the calling factory.
ExperimentNext(step, k) ==
    CASE step = "comet" -> "log"
      [] step = "log" -> "callbacks"
      [] step = "callbacks" -> "device"
      [] step = "device" -> "providers"
      [] step = "providers" -> "experiment_init"
      [] step = "experiment_init" ->
            CASE k = "experiment" -> "done"
              [] k = "training" -> "model"
              [] k = "prediction" -> "load_checkpoint"
              [] k = "processor" -> "processor_init"

\* Variant: the optimizer is constructed, and restored, before the model is
\* moved to the device.
TrainingNextOptimizerFirst(step, is_resume) ==
    CASE step = "model" -> IF is_resume THEN "resume_checkpoint" ELSE "optimizer"
      [] step = "resume_checkpoint" -> "resume_restore"
      [] step = "resume_restore" -> "optimizer"
      [] step = "optimizer" -> IF is_resume THEN "optimizer_restore" ELSE "model_to"
      [] step = "optimizer_restore" -> "model_to"
      [] step = "model_to" -> "savers"
      [] step = "savers" -> "loss_fn"
      [] step = "loss_fn" -> "step_fn"
      [] step = "step_fn" -> "training_init"
      [] step = "training_init" -> "done"

\* TrainingContext.from_config, lines 332-371: the statement after `step`.
TrainingNext(step, is_resume) ==
    CASE step = "model" -> IF is_resume THEN "resume_checkpoint" ELSE "model_to"
      [] step = "resume_checkpoint" -> "resume_restore"
      [] step = "resume_restore" -> "model_to"
      [] step = "model_to" -> "optimizer"
      [] step = "optimizer" -> IF is_resume THEN "optimizer_restore" ELSE "savers"
      [] step = "optimizer_restore" -> "savers"
      [] step = "savers" -> "loss_fn"
      [] step = "loss_fn" -> "step_fn"
      [] step = "step_fn" -> "training_init"
      [] step = "training_init" -> "done"

\* PredictionContext.from_config, lines 401-410.
PredictionNext(step) ==
    CASE step = "load_checkpoint" -> "prediction_model"
      [] step = "prediction_model" -> "prediction_restore"
      [] step = "prediction_restore" -> "prediction_model_to"
      [] step = "prediction_model_to" -> "prediction_init"
      [] step = "prediction_init" -> "done"

\* Variant: the model path is not checked.
ModelPathMissingNever(path) == FALSE

\* Line 395.
ModelPathMissing(path) == path = "None"

\* Variant: the model and task sections of the live config.
PredictionModelSourceLive(experiment_config, checkpoint) ==
    [model |-> experiment_config.model, task |-> experiment_config.task]

\* Line 406: the sections the prediction factory builds its model from.
PredictionModelSource(experiment_config, checkpoint) ==
    [model |-> checkpoint.cp_model, task |-> checkpoint.cp_task]

\* -------------------------------------------------------------- the calls
\* A call of a from_config factory that takes (experiment_config, split_names).
StartFactory(k) ==
    /\ pc = "idle"
    /\ \E cfg \in FlowConfigs, sn \in SplitLists :
          /\ config' = cfg
          /\ given_callbacks' = cfg.callbacks
          /\ split_names' = sn
    /\ kind' = k
    /\ pc' = "comet"
    /\ UNCHANGED <<model_path, clb_call, trace, expvars, trainvars, raised, result>>

StartExperiment == StartFactory("experiment")

StartTraining == StartFactory("training")

StartProcessor == StartFactory("processor")

\* PredictionContext.from_config(experiment_config, split_names, model_path):
\* lines 395-396 raise before anything else when model_path is None.
StartPrediction ==
    /\ pc = "idle"
    /\ \E cfg \in FlowConfigs, sn \in SplitLists, path \in ModelPaths :
          /\ config' = cfg
          /\ given_callbacks' = cfg.callbacks
          /\ split_names' = sn
          /\ model_path' = path
          /\ pc' = IF ModelPathMissing(path) THEN "failed" ELSE "comet"
          /\ raised' = IF ModelPathMissing(path) THEN "Exception" ELSE "none"
    /\ kind' = "prediction"
    /\ UNCHANGED <<clb_call, trace, expvars, trainvars, result>>

\* ------------------------------------------- ExperimentContext.from_config
\* Line 295.
LoadCometmlExperiment ==
    /\ pc = "comet"
    /\ comet' = "experiment"
    /\ trace' = Append(trace, "load_cometml_experiment")
    /\ pc' = ExperimentNext("comet", kind)
    /\ UNCHANGED <<config, inputs, callbacks, constructed, cuda_available,
                   device, providers, experiment_context, trainvars, raised, result>>

\* Lines 296-298: add_tags when the config has tags, then log_config.
LogConfig ==
    /\ pc = "log"
    /\ trace' = trace \o (IF config.tags THEN <<"add_tags">> ELSE <<>>)
                      \o <<"log_config">>
    /\ pc' = ExperimentNext("log", kind)
    /\ UNCHANGED <<config, inputs, expvars, trainvars, raised, result>>

\* Line 301.  What the loader raises propagates: the factory ends there.
LoadCallbacksFromConfig ==
    /\ pc = "callbacks"
    /\ LET r == load_callbacks_from_config(config.callbacks, comet)
       IN /\ config' = [config EXCEPT !.callbacks.list = r.list]
          /\ constructed' = r.constructed
          /\ callbacks' = IF r.failed THEN callbacks ELSE r.registry
          /\ pc' = IF r.failed THEN "failed" ELSE ExperimentNext("callbacks", kind)
          /\ raised' = r.error
    /\ trace' = Append(trace, "load_callbacks")
    /\ UNCHANGED <<inputs, comet, cuda_available, device, providers,
                   experiment_context, trainvars, result>>

\* Line 304.  The accelerator's availability is the machine's answer.
LoadDeviceFromConfig ==
    /\ pc = "device"
    /\ \E available \in BOOLEAN :
          /\ cuda_available' = available
          /\ device' = load_device_from_config(config, available)
    /\ trace' = Append(trace, "load_device")
    /\ pc' = ExperimentNext("device", kind)
    /\ UNCHANGED <<config, inputs, comet, callbacks, constructed, providers,
                   experiment_context, trainvars, raised, result>>

\* Line 307.
LoadProvidersFromConfig ==
    /\ pc = "providers"
    /\ LET r == load_providers_from_config(config, split_names, device)
       IN /\ config' = r.config
          /\ providers' = r.providers
    /\ trace' = Append(trace, "load_providers")
    /\ pc' = ExperimentNext("providers", kind)
    /\ UNCHANGED <<inputs, comet, callbacks, constructed, cuda_available,
                   device, experiment_context, trainvars, raised, result>>

\* Line 309: cls(...).  The experiment factory returns the context; the
\* other factories go on with it.
ExperimentContextInit ==
    /\ pc = "experiment_init"
    /\ experiment_context' =
          ExperimentHolder(config, comet, device, providers, callbacks)
    /\ context' = IF kind = "experiment" THEN experiment_context' ELSE context
    /\ pc' = ExperimentNext("experiment_init", kind)
    /\ UNCHANGED <<config, trace, inputs, comet, callbacks, constructed,
                   cuda_available, device, providers, trainvars, raised,
                   own_fields>>

\* --------------------------------------------- TrainingContext.from_config
\* Lines 333-337.
LoadModelFromConfig ==
    /\ pc = "model"
    /\ epoch_start' = 1
    /\ model' = load_model_from_config(config.model, config.task)
    /\ models_built' = Append(models_built,
                              [model |-> config.model, task |-> config.task])
    /\ trace' = Append(trace, "load_model")
    /\ pc' = TrainingNext("model", IsResume(config))
    /\ UNCHANGED <<config, inputs, expvars, ckpt, optimizer, savers, loss_fn,
                   step_fn, raised, result>>

\* Lines 340-341: the checkpoint is what the file at the path holds.
ResumeLoadCheckpoint ==
    /\ pc = "resume_checkpoint"
    /\ \E c \in Checkpoints : ckpt' = c
    /\ trace' = trace \o <<"load_checkpoint", "log_checkpoint">>
    /\ pc' = TrainingNext("resume_checkpoint", IsResume(config))
    /\ UNCHANGED <<config, inputs, expvars, model, models_built, epoch_start,
                   optimizer, savers, loss_fn, step_fn, raised, result>>

\* Lines 344-347.
ResumeRestore ==
    /\ pc = "resume_restore"
    /\ model' = [model EXCEPT !.weights = "checkpoint"]
    /\ epoch_start' = AdvanceEpoch(ckpt.cp_epoch)
    /\ trace' = trace \o <<"load_state_dict", "advance_epoch">>
    /\ pc' = TrainingNext("resume_restore", IsResume(config))
    /\ UNCHANGED <<config, inputs, expvars, models_built, ckpt, optimizer,
                   savers, loss_fn, step_fn, raised, result>>

\* Line 348.
ModelToDevice ==
    /\ pc = "model_to"
    /\ model' = [model EXCEPT !.device = experiment_context["device"]]
    /\ trace' = Append(trace, "model_to_device")
    /\ pc' = TrainingNext("model_to", IsResume(config))
    /\ UNCHANGED <<config, inputs, expvars, models_built, ckpt, epoch_start,
                   optimizer, savers, loss_fn, step_fn, raised, result>>

\* Line 351.
ConstructOptimizer ==
    /\ pc = "optimizer"
    /\ optimizer' = Adam(model)
    /\ trace' = Append(trace, "construct_optimizer")
    /\ pc' = TrainingNext("optimizer", IsResume(config))
    /\ UNCHANGED <<config, inputs, expvars, model, models_built, ckpt,
                   epoch_start, savers, loss_fn, step_fn, raised, result>>

\* Lines 352-353.
OptimizerLoadStateDict ==
    /\ pc = "optimizer_restore"
    /\ optimizer' = [optimizer EXCEPT !.state = "checkpoint"]
    /\ trace' = Append(trace, "optimizer_load_state_dict")
    /\ pc' = TrainingNext("optimizer_restore", IsResume(config))
    /\ UNCHANGED <<config, inputs, expvars, model, models_built, ckpt,
                   epoch_start, savers, loss_fn, step_fn, raised, result>>

\* Line 356.
LoadSaversFromConfig ==
    /\ pc = "savers"
    /\ savers' = "SaverRegistry"
    /\ trace' = Append(trace, "load_savers")
    /\ pc' = TrainingNext("savers", IsResume(config))
    /\ UNCHANGED <<config, inputs, expvars, model, models_built, ckpt,
                   epoch_start, optimizer, loss_fn, step_fn, raised, result>>

\* Lines 359-363.
LoadLossFn ==
    /\ pc = "loss_fn"
    /\ loss_fn' = "loss_fn"
    /\ trace' = Append(trace, "load_loss_fn")
    /\ pc' = TrainingNext("loss_fn", IsResume(config))
    /\ UNCHANGED <<config, inputs, expvars, model, models_built, ckpt,
                   epoch_start, optimizer, savers, step_fn, raised, result>>

\* Lines 366-369.
LoadStepFn ==
    /\ pc = "step_fn"
    /\ step_fn' = "step_fn"
    /\ trace' = Append(trace, "load_step_fn")
    /\ pc' = TrainingNext("step_fn", IsResume(config))
    /\ UNCHANGED <<config, inputs, expvars, model, models_built, ckpt,
                   epoch_start, optimizer, savers, loss_fn, raised, result>>

\* Line 371 and TrainingContext.__init__.
TrainingContextInit ==
    /\ pc = "training_init"
    /\ own_fields' = TrainingOwn(model, optimizer, loss_fn, step_fn,
                                 epoch_start, savers)
    /\ context' = MergeHolders(own_fields', experiment_context)
    /\ pc' = TrainingNext("training_init", IsResume(config))
    /\ UNCHANGED <<config, trace, inputs, expvars, trainvars, raised>>

\* ------------------------------------------- PredictionContext.from_config
\* Lines 402-403.
PredictionLoadCheckpoint ==
    /\ pc = "load_checkpoint"
    /\ \E c \in Checkpoints : ckpt' = c
    /\ trace' = trace \o <<"load_checkpoint", "log_checkpoint">>
    /\ pc' = PredictionNext("load_checkpoint")
    /\ UNCHANGED <<config, inputs, expvars, model, models_built, epoch_start,
                   optimizer, savers, loss_fn, step_fn, raised, result>>

\* Line 406.
PredictionLoadModel ==
    /\ pc = "prediction_model"
    /\ LET src == PredictionModelSource(config, ckpt)
       IN /\ model' = load_model_from_config(src.model, src.task)
          /\ models_built' = Append(models_built, src)
    /\ trace' = Append(trace, "load_model")
    /\ pc' = PredictionNext("prediction_model")
    /\ UNCHANGED <<config, inputs, expvars, ckpt, epoch_start, optimizer,
                   savers, loss_fn, step_fn, raised, result>>

\* Line 407.
PredictionLoadStateDict ==
    /\ pc = "prediction_restore"
    /\ model' = [model EXCEPT !.weights = "checkpoint"]
    /\ trace' = Append(trace, "load_state_dict")
    /\ pc' = PredictionNext("prediction_restore")
    /\ UNCHANGED <<config, inputs, expvars, models_built, ckpt, epoch_start,
                   optimizer, savers, loss_fn, step_fn, raised, result>>

\* Line 408.
PredictionModelToDevice ==
    /\ pc = "prediction_model_to"
    /\ model' = [model EXCEPT !.device = experiment_context["device"]]
    /\ trace' = Append(trace, "model_to_device")
    /\ pc' = PredictionNext("prediction_model_to")
    /\ UNCHANGED <<config, inputs, expvars, models_built, ckpt, epoch_start,
                   optimizer, savers, loss_fn, step_fn, raised, result>>

\* Line 410 and PredictionContext.__init__.
PredictionContextInit ==
    /\ pc = "prediction_init"
    /\ own_fields' = PredictionOwn(model)
    /\ context' = MergeHolders(own_fields', experiment_context)
    /\ pc' = PredictionNext("prediction_init")
    /\ UNCHANGED <<config, trace, inputs, expvars, trainvars, raised>>

\* -------------------------------------------- ProcessorContext.from_config
\* Line 433 and ProcessorContext.__init__.
ProcessorContextInit ==
    /\ pc = "processor_init"
    /\ own_fields' = ProcessorOwn
    /\ context' = MergeHolders(own_fields', experiment_context)
    /\ pc' = "done"
    /\ UNCHANGED <<config, trace, inputs, expvars, trainvars, raised>>

\* ------------------------------------------------------------ direct calls
\* ContextLoader.load_callbacks_from_config(exp_config, comet) on a config
\* without a callbacks section or with any list within the bounds.
CallLoadCallbacksFromConfig ==
    /\ pc = "idle"
    /\ \E k \in 0..MaxCallbacks, present \in BOOLEAN : \E list \in CallbackLists(k) :
          LET clbs == IF present THEN Section(list) ELSE NoSection
              r == load_callbacks_from_config(clbs, "experiment")
          IN /\ present \/ k = 0
             /\ given_callbacks' = clbs
             /\ config' = [CallbackOnlyConfig(clbs) EXCEPT !.callbacks.list = r.list]
             /\ constructed' = r.constructed
             /\ callbacks' = IF r.failed THEN callbacks ELSE r.registry
             /\ pc' = IF r.failed THEN "failed" ELSE "returned"
             /\ raised' = r.error
    /\ kind' = "load_callbacks"
    /\ comet' = "experiment"
    /\ trace' = Append(trace, "load_callbacks")
    /\ UNCHANGED <<split_names, model_path, clb_call, cuda_available, device,
                   providers, experiment_context, trainvars, result>>

\* ContextLoader.load_callback_dynamically(package, class, comet, kwargs) on
\* any class, tracking client and kwargs (None when the entry has none).
CallLoadCallbackDynamically ==
    /\ pc = "idle"
    /\ \E cls \in DynamicClasses, cmt \in Comets, has_kwargs \in BOOLEAN,
          has_metrics \in BOOLEAN, names \in SeqsUpTo(CallbackNames, MaxRefs) :
          LET metrics == [i \in DOMAIN names |-> Str(names[i])]
              cfg == IF ~has_kwargs THEN ClbPlain(cls)
                     ELSE IF ~has_metrics THEN ClbKwargs(cls)
                     ELSE ClbMetrics(cls, names)
              clb == load_callback_dynamically(cls, cmt, cfg.has_kwargs,
                                               cfg.has_metrics, cfg.metrics, 1)
          IN /\ clb_call' =
                   [called |-> TRUE, comet |-> cmt, config |-> cfg,
                    call |-> ConstructorCall(cls, cmt, cfg.has_kwargs,
                                             cfg.has_metrics, cfg.metrics)]
             /\ constructed' = IF clb.type = "TypeError" THEN <<>> ELSE <<clb>>
             /\ raised' = IF clb.type = "TypeError" THEN "TypeError" ELSE "none"
             /\ pc' = IF clb.type = "TypeError" THEN "failed" ELSE "returned"
    /\ kind' = "load_callback_dynamically"
    /\ UNCHANGED <<config, trace, given_callbacks, split_names, model_path,
                   comet, callbacks, cuda_available, device, providers,
                   experiment_context, trainvars, result>>

\* The constructors called directly.  Any object with a holder can be passed
\* as experiment_context: here a context a factory has returned, of any of
\* the four classes.
FactoryKinds == {"experiment", "training", "prediction", "processor"}

\* TrainingContext(ctx, model, optimizer, loss_fn, step_fn, 1, savers) over
\* a returned context ctx, with a model of another section than the config's
\* and an optimizer built for the call.
NewTrainingContext ==
    /\ pc = "done"
    /\ kind \in FactoryKinds
    /\ experiment_context' = context
    /\ \E m \in ModelConfigs \ {config.model} :
          LET own_model == load_model_from_config(m, config.task)
          IN own_fields' = TrainingOwn(own_model, Adam(own_model), "loss_fn",
                                       "step_fn", 1, "savers")
    /\ context' = MergeHolders(own_fields', experiment_context')
    /\ kind' = "new_training"
    /\ pc' = "returned"
    /\ UNCHANGED <<config, trace, given_callbacks, split_names, model_path,
                   clb_call, comet, callbacks, constructed, cuda_available,
                   device, providers, trainvars, raised>>

\* PredictionContext(ctx, model) over a returned context ctx, with a model
\* of another section than the config's.
NewPredictionContext ==
    /\ pc = "done"
    /\ kind \in FactoryKinds
    /\ experiment_context' = context
    /\ \E m \in ModelConfigs \ {config.model} :
          own_fields' = PredictionOwn(load_model_from_config(m, config.task))
    /\ context' = MergeHolders(own_fields', experiment_context')
    /\ kind' = "new_prediction"
    /\ pc' = "returned"
    /\ UNCHANGED <<config, trace, given_callbacks, split_names, model_path,
                   clb_call, comet, callbacks, constructed, cuda_available,
                   device, providers, trainvars, raised>>

\* ProcessorContext(ctx) over a returned context ctx.
NewProcessorContext ==
    /\ pc = "done"
    /\ kind \in FactoryKinds
    /\ experiment_context' = context
    /\ own_fields' = ProcessorOwn
    /\ context' = MergeHolders(own_fields', experiment_context')
    /\ kind' = "new_processor"
    /\ pc' = "returned"
    /\ UNCHANGED <<config, trace, given_callbacks, split_names, model_path,
                   clb_call, comet, callbacks, constructed, cuda_available,
                   device, providers, trainvars, raised>>

Next ==
    \/ StartExperiment
    \/ StartTraining
    \/ StartProcessor
    \/ StartPrediction
    \/ LoadCometmlExperiment
    \/ LogConfig
    \/ LoadCallbacksFromConfig
    \/ LoadDeviceFromConfig
    \/ LoadProvidersFromConfig
    \/ ExperimentContextInit
    \/ LoadModelFromConfig
    \/ ResumeLoadCheckpoint
    \/ ResumeRestore
    \/ ModelToDevice
    \/ ConstructOptimizer
    \/ OptimizerLoadStateDict
    \/ LoadSaversFromConfig
    \/ LoadLossFn
    \/ LoadStepFn
    \/ TrainingContextInit
    \/ PredictionLoadCheckpoint
    \/ PredictionLoadModel
    \/ PredictionLoadStateDict
    \/ PredictionModelToDevice
    \/ PredictionContextInit
    \/ ProcessorContextInit
    \/ CallLoadCallbacksFromConfig
    \/ CallLoadCallbackDynamically
    \/ NewTrainingContext
    \/ NewPredictionContext
    \/ NewProcessorContext

Spec == Init /\ [][Next]_vars

\* ================================================================== claims
MaxOf(S) == CHOOSE x \in S : \A y \in S : y <= x
MinOf(S) == CHOOSE x \in S : \A y \in S : x <= y

Happened(event) == event \in Range(trace)

\* The events up to and including the model of a training run.
TrainingPrologue(cfg) ==
    <<"load_cometml_experiment">>
    \o (IF cfg.tags THEN <<"add_tags">> ELSE <<>>)
    \o <<"log_config", "load_callbacks", "load_device", "load_providers",
         "load_model">>

TrainingEpilogue == <<"load_savers", "load_loss_fn", "load_step_fn">>

\* The order C1 states: the whole resume step, optimizer state included,
\* before the model is moved to the device.
ClaimedTrainingOrder(cfg) ==
    TrainingPrologue(cfg)
    \o (IF IsResume(cfg)
        THEN <<"load_checkpoint", "log_checkpoint", "load_state_dict",
               "advance_epoch", "optimizer_load_state_dict">>
        ELSE <<>>)
    \o <<"model_to_device", "construct_optimizer">>
    \o TrainingEpilogue

\* The order with the optimizer state restored right after the optimizer
\* is constructed.
AmendedTrainingOrder(cfg) ==
    TrainingPrologue(cfg)
    \o (IF IsResume(cfg)
        THEN <<"load_checkpoint", "log_checkpoint", "load_state_dict",
               "advance_epoch">>
        ELSE <<>>)
    \o <<"model_to_device", "construct_optimizer">>
    \o (IF IsResume(cfg) THEN <<"optimizer_load_state_dict">> ELSE <<>>)
    \o TrainingEpilogue

\* C1 as stated: in every run of TrainingContext.from_config the steps
\* happen in the order tracking client, logging, callbacks, device,
\* providers, model, resume (checkpoint, weights, start epoch, optimizer
\* state), move to device, optimizer, savers, loss function, step function.
C1_ClaimedOrder ==
    kind = "training" =>
        /\ IsPrefix(trace, ClaimedTrainingOrder(config))
        /\ pc = "done" => trace = ClaimedTrainingOrder(config)

\* C1 amended: the steps of every run of TrainingContext.from_config happen
\* in the order tracking client, logging, callbacks, device, providers,
\* model, resume (checkpoint, weights, start epoch), move to device,
\* optimizer, restore of the optimizer state on a resuming run, savers, loss
\* function, step function.  The optimizer is never constructed before the
\* model is on the device, the optimizer state is never restored before the
\* optimizer is constructed, and on a resuming run the weights and the start
\* epoch are restored before the model is moved.
C1_AmendedOrder ==
    kind = "training" =>
        /\ IsPrefix(trace, AmendedTrainingOrder(config))
        /\ pc = "done" => trace = AmendedTrainingOrder(config)
        /\ optimizer.constructed =>
              /\ device # "none"
              /\ model.device = device
              /\ optimizer.params_device = device
        /\ optimizer.state = "checkpoint" => optimizer.constructed
        /\ (IsResume(config) /\ model.device # "none") =>
              /\ ckpt.loaded
              /\ model.weights = "checkpoint"
              /\ epoch_start = ckpt.cp_epoch + 1

\* A resuming training run that returned its context.
C1_Witness ==
    /\ kind = "training"
    /\ pc = "done"
    /\ IsResume(config)
    /\ optimizer.state = "checkpoint"
    /\ Happened("optimizer_load_state_dict")

\* The entries that were constructed from the given callbacks list.
Loaded == IF given_callbacks.present THEN 1..Len(constructed) ELSE {}

\* The entries before entry i whose instance has the given name.
EarlierNamed(i, name) == {k \in 1..(i - 1) : constructed[k].name = name}

\* C2: a callback whose kwargs hold a `metrics` list of names is constructed
\* with the list, of the same length and order, of the instances the
\* earlier entries registered under those names, and the config holds that
\* instance list in place of the names.
C2_MetricsResolved ==
    \A i \in Loaded :
        LET given == given_callbacks.list[i]
            clb == constructed[i]
        IN (given.has_kwargs /\ given.has_metrics) =>
              /\ clb.has_metrics
              /\ Len(clb.metrics) = Len(given.metrics)
              /\ \A j \in 1..Len(given.metrics) :
                    LET earlier == EarlierNamed(i, given.metrics[j].value)
                    IN /\ earlier # {}
                       /\ clb.metrics[j].type = "callback"
                       /\ clb.metrics[j] = constructed[MaxOf(earlier)]
              /\ config.callbacks.list[i].metrics = clb.metrics

\* Given [A, B, B(metrics=[b, a])], the last B was constructed with the
\* instances of the first B and of A, in that order.
C2_Witness ==
    /\ given_callbacks =
          Section(<<ClbPlain("A"), ClbPlain("B"), ClbMetrics("B", <<"b", "a">>)>>)
    /\ Len(constructed) = 3
    /\ constructed[1].class = "A"
    /\ constructed[2].class = "B"
    /\ constructed[1] # constructed[2]
    /\ constructed[3].metrics = <<constructed[2], constructed[1]>>
    /\ config.callbacks.list[3].metrics = <<constructed[2], constructed[1]>>

SpecializedKinds ==
    {"training", "prediction", "processor",
     "new_training", "new_prediction", "new_processor"}

\* C3: on every key that both the specialized context's own fields and the
\* embedded context's holder have, lookup on the merged context returns the
\* specialized context's own value.
C3_OwnFieldsWin ==
    (kind \in SpecializedKinds /\ pc \in {"done", "returned"}) =>
        \A k \in DOMAIN own_fields \cap DOMAIN experiment_context :
            context[k] = own_fields[k]

\* C4: a resuming training run over a checkpoint with cp-epoch n returns
\* epoch_start n + 1; a run that does not resume loads no checkpoint and
\* returns epoch_start 1.
C4_EpochStart ==
    kind = "training" =>
        /\ (config.params.resume # "true") =>
              /\ ~ckpt.loaded
              /\ ~Happened("load_checkpoint")
        /\ pc = "done" =>
              IF config.params.resume = "true"
              THEN ckpt.loaded /\ context["epoch_start"] = ckpt.cp_epoch + 1
              ELSE context["epoch_start"] = 1

\* A resumed run over the largest checkpoint epoch.
C4_Witness ==
    /\ kind = "training"
    /\ pc = "done"
    /\ config.params.resume = "true"
    /\ ckpt.cp_epoch = MaxEpoch
    /\ context["epoch_start"] = MaxEpoch + 1

\* C5: the prediction factory builds its model from the checkpoint's
\* cp-model and cp-task and never instantiates the live config's model
\* section.
C5_ModelFromCheckpoint ==
    kind = "prediction" =>
        /\ \A i \in DOMAIN models_built :
              /\ ckpt.loaded
              /\ models_built[i].model = ckpt.cp_model
              /\ models_built[i].task = ckpt.cp_task
        /\ pc = "done" =>
              /\ Len(models_built) = 1
              /\ context["model"].model = ckpt.cp_model
              /\ context["model"].task = ckpt.cp_task

\* A prediction context whose checkpoint differs from the live config in
\* both sections.
C5_Witness ==
    /\ kind = "prediction"
    /\ pc = "done"
    /\ config.model # ckpt.cp_model
    /\ config.task # ckpt.cp_task
    /\ context["model"].model = ckpt.cp_model

\* C6: the context of ExperimentContext.from_config has exactly the keys
\* config, comet, device, providers and callbacks, and its providers are
\* keyed by exactly the requested split names.
C6_ExperimentKeys ==
    /\ (kind \in FactoryKinds /\ DOMAIN experiment_context # {}) =>
          /\ DOMAIN experiment_context =
                {"config", "comet", "device", "providers", "callbacks"}
          /\ DOMAIN experiment_context["providers"] = Range(split_names)
    /\ (kind = "experiment" /\ pc = "done") =>
          /\ DOMAIN context =
                {"config", "comet", "device", "providers", "callbacks"}
          /\ DOMAIN context["providers"] = Range(split_names)

\* An experiment context over the splits train and dev.
C6_Witness ==
    /\ kind = "experiment"
    /\ pc = "done"
    /\ split_names = <<"train", "dev">>
    /\ DOMAIN context["providers"] = {"train", "dev"}

\* The entries of a callbacks list that name a callback no earlier entry
\* of the list registers.
Unregistered(list) ==
    {i \in 1..Len(list) :
        /\ list[i].has_kwargs
        /\ list[i].has_metrics
        /\ \E j \in 1..Len(list[i].metrics) :
              list[i].metrics[j].value \notin
                 {ClbName(list[k].class) : k \in 1..(i - 1)}}

\* The constructor of the entry's class takes the entry's kwargs.
TakesKwargs(entry) ==
    (entry.has_kwargs /\ entry.has_metrics) =>
        "metrics" \in Range(ClbParameters(entry.class))

\* C7: when an entry names a callback that is not yet registered, the
\* loader fails: that entry and every later one is never constructed, no
\* later assembly step runs and no context is returned; the failure is the
\* lookup failure at that entry, with exactly the entries before it
\* constructed, whenever the loader gets to that entry (the constructors of
\* the entries before it take their kwargs).
C7_LookupFailure ==
    (/\ Happened("load_callbacks")
     /\ given_callbacks.present
     /\ Unregistered(given_callbacks.list) # {}) =>
        LET first == MinOf(Unregistered(given_callbacks.list))
        IN /\ pc = "failed"
           /\ Len(constructed) <= first - 1
           /\ \A k \in 1..Len(constructed) :
                 constructed[k].class = given_callbacks.list[k].class
           /\ (\A k \in 1..(first - 1) : TakesKwargs(given_callbacks.list[k]))
                 => (raised = "KeyError" /\ Len(constructed) = first - 1)
           /\ trace[Len(trace)] = "load_callbacks"
           /\ device = "none"
           /\ DOMAIN providers = {}
           /\ DOMAIN experiment_context = {}
           /\ model = NoModel
           /\ ~optimizer.constructed
           /\ DOMAIN context = {}

\* A training run whose second callback names a callback only the third
\* registers.
C7_Witness ==
    /\ kind = "training"
    /\ pc = "failed"
    /\ Len(given_callbacks.list) = 3
    /\ Unregistered(given_callbacks.list) = {2}
    /\ Len(constructed) = 1
    /\ raised = "KeyError"

\* C8: the prediction factory called with model_path None fails before any
\* other step: no tracking client, no logging, no callbacks, device,
\* providers or checkpoint, and no context.
C8_MissingModelPath ==
    (kind = "prediction" /\ model_path = "None") =>
        /\ pc = "failed"
        /\ raised = "Exception"
        /\ trace = <<>>
        /\ comet = "none"
        /\ constructed = <<>>
        /\ device = "none"
        /\ DOMAIN providers = {}
        /\ ~ckpt.loaded
        /\ DOMAIN experiment_context = {}
        /\ DOMAIN context = {}

C8_Witness ==
    /\ kind = "prediction"
    /\ model_path = "None"
    /\ pc = "failed"

\* C9: the provider of a split shuffles exactly when the split is `train`
\* and the config has no `env` entry.
C9_Shuffle ==
    \A s \in DOMAIN providers :
        providers[s].shuffle <=> (s = "train" /\ ~config.env)

\* The provider of `train` under a configured environment does not shuffle.
C9_Witness ==
    /\ config.env
    /\ "train" \in DOMAIN providers
    /\ ~providers["train"].shuffle

\* C10: with cpu_only true the device is the CPU whatever the accelerator's
\* availability; otherwise it is cuda:0 exactly when one is available.
C10_Device ==
    device # "none" =>
        device = IF config.params.cpu_only = "true" THEN "cpu"
                 ELSE IF cuda_available THEN "cuda:0" ELSE "cpu"

\* cpu_only on a machine with an accelerator.
C10_Witness ==
    /\ config.params.cpu_only = "true"
    /\ cuda_available
    /\ device = "cpu"

\* The constructor of the class declares a parameter named comet or
\* experiment.
DeclaresTrackingClient(cls) ==
    {"comet", "experiment"} \cap Range(ClbParameters(cls)) # {}

\* The tracking client and the kwargs entry i of constructed was loaded
\* with: those of the direct call, or the factory's client and the entry of
\* the callbacks list as the loader passed it on.
LoadedWith(i) ==
    IF clb_call.called
    THEN [comet |-> clb_call.comet, config |-> clb_call.config]
    ELSE [comet |-> "experiment", config |-> config.callbacks.list[i]]

\* What C11 says of a constructor call (or of the instance it returned)
\* made for the class and kwargs of config with the tracking client cmt.
PassedAsClaimed(call, cmt, cfg) ==
    /\ call.class = cfg.class
    /\ DeclaresTrackingClient(call.class) => call.args = <<cmt>>
    /\ ~DeclaresTrackingClient(call.class) => call.args = <<>>
    /\ call.has_kwargs = cfg.has_kwargs
    /\ call.has_kwargs =>
          /\ call.has_metrics = cfg.has_metrics
          /\ call.metrics = cfg.metrics
    /\ ~call.has_kwargs => (~call.has_metrics /\ call.metrics = <<>>)

\* C11: load_callback_dynamically passes the tracking client, as the only
\* positional argument, exactly when the constructor declares a parameter
\* named comet or experiment; the configured kwargs, when present, are
\* passed as keyword arguments, and nothing else is passed.  This holds of
\* every instance constructed and of every call made directly, also when
\* the constructor rejects the call.
C11_CometInjection ==
    /\ \A i \in DOMAIN constructed :
          constructed[i].class # "AverageLossMetric" =>
             PassedAsClaimed(constructed[i], LoadedWith(i).comet,
                             LoadedWith(i).config)
    /\ clb_call.called =>
          /\ PassedAsClaimed(clb_call.call, clb_call.comet, clb_call.config)
          /\ (pc = "returned") <=> (Len(constructed) = 1)
          /\ (pc = "failed") <=> (raised = "TypeError" /\ constructed = <<>>)

\* A class that declares `experiment`, loaded with kwargs.
C11_Witness ==
    /\ kind = "load_callback_dynamically"
    /\ pc = "returned"
    /\ clb_call.config.class = "C"
    /\ clb_call.config.has_kwargs
    /\ clb_call.comet = "experiment"
    /\ constructed[1].args = <<"experiment">>
    /\ constructed[1].has_kwargs

====
